---- MODULE Spec2Model ----
(***************************************************************************)
(* Model of Sesion3/data_pipeline/pipeline.py: the validate-then-load      *)
(* batch job that reads six CSV files, transforms and validates each       *)
(* DataFrame, and appends them to MySQL in foreign-key order.              *)
(*                                                                         *)
(* A DataFrame is a sequence of rows; a row is a record of cells; a cell   *)
(* is Null (pandas NaN / NaT / None) or Some(v).                           *)
(***************************************************************************)
EXTENDS Integers, Sequences, FiniteSets, TLC

VARIABLES pc, cur, df, dataframes, db, calls, reads, log, exit_status, err

vars == <<pc, cur, df, dataframes, db, calls, reads, log, exit_status, err>>

(* ---------------------------- bounds ----------------------------------- *)

\* longest CSV file (in data rows) that a read may return
MaxRows == 2

(* ---------------------------- cells ------------------------------------ *)

Null == << >>

Some(v) == <<v>>

IsNull(c) == c = Null

\* pandas elementwise ==: NaN compares unequal to everything, itself included
CellEq(a, b) == ~IsNull(a) /\ ~IsNull(b) /\ a = b

\* pandas elementwise *: NaN propagates
CellMul(a, b) == IF IsNull(a) \/ IsNull(b) THEN Null ELSE Some(a[1] * b[1])

\* set(df[col]) as used by Series.isin: NaN matches NaN
KeySet(frame, col) == {frame[i][col] : i \in DOMAIN frame}

\* Series.isin(valid_ids).all()
AllIsIn(frame, col, valid_ids) == \A i \in DOMAIN frame : frame[i][col] \in valid_ids

\* Series.duplicated().any()
AnyDuplicated(frame, col) ==
    \E i, j \in DOMAIN frame : i < j /\ frame[i][col] = frame[j][col]

\* df[cols].isnull().any().any()
AnyNull(frame, cols) == \E i \in DOMAIN frame : \E c \in cols : IsNull(frame[i][c])

(* ---------------------------- config ----------------------------------- *)

\* a bug that loads a referencing table ahead of the table it references
load_order_CategoriesFirst ==
    <<"categories", "departments", "customers", "products", "orders", "order_items">>

load_order ==
    <<"departments", "categories", "customers", "products", "orders", "order_items">>

\* the order in which main reads and transforms the files
read_order ==
    <<"departments", "categories", "customers", "products", "orders", "order_items">>

CSV_FILES ==
    [customers |-> "data/customers.csv",
     departments |-> "data/departments.csv",
     categories |-> "data/categories.csv",
     products |-> "data/products.csv",
     orders |-> "data/orders.csv",
     order_items |-> "data/order_items.csv"]

Tables == DOMAIN CSV_FILES

(* ---------------------------- log -------------------------------------- *)

\* a log line; about is the file or table an f-string message names
LogAbout(level, msg, about) == [level |-> level, msg |-> msg, about |-> about]

LogEntry(level, msg) == LogAbout(level, msg, "")

Failure(kind, table) == [kind |-> kind, table |-> table]

NoFailure == Failure("none", "none")

(* ---------------------------- conversions ------------------------------ *)

\* str.lower() on one character of the alphabet the sample e-mails use
\* a bug that swaps the case instead of lowering it
LowerChar_SwapCase(c) ==
    CASE c = "A" -> "a"
      [] c = "B" -> "b"
      [] c = "X" -> "x"
      [] c = "a" -> "A"
      [] c = "b" -> "B"
      [] c = "x" -> "X"
      [] OTHER -> c

LowerChar(c) ==
    CASE c = "A" -> "a"
      [] c = "B" -> "b"
      [] c = "X" -> "x"
      [] OTHER -> c

\* str.lower() on a string, held as a sequence of characters
Lower(s) == [i \in DOMAIN s |-> LowerChar(s[i])]

\* Series.str.lower(): NaN stays NaN
StrLower(c) == IF IsNull(c) THEN Null ELSE Some(Lower(c[1]))

\* The .str accessor is refused (AttributeError) on a column that holds no
\* string at all: read_csv types an all-empty column float64.  A frame with
\* no rows has object columns and is accepted.
StrAccessorRaises(frame, col) ==
    /\ Len(frame) > 0
    /\ \A i \in DOMAIN frame : IsNull(frame[i][col])

IsLeap(y) == (y % 4 = 0 /\ y % 100 # 0) \/ y % 400 = 0

DaysInMonth(y, m) ==
    IF m = 2 THEN (IF IsLeap(y) THEN 29 ELSE 28)
    ELSE IF m \in {4, 6, 9, 11} THEN 30 ELSE 31

\* pd.to_datetime(..., errors='coerce') on one cell.  A raw date is the tuple
\* of the numeric fields of its text ("2013-07-25" is <<2013, 7, 25>>, a text
\* with no date in it is << >>); the result is a midnight timestamp or NaT.
ToDatetime(c) ==
    IF IsNull(c) THEN Null
    ELSE LET s == c[1] IN
         IF /\ Len(s) = 3
            /\ s[2] \in 1..12
            /\ s[3] \in 1..DaysInMonth(s[1], s[2])
         THEN Some(<<s[1], s[2], s[3], 0, 0, 0>>)
         ELSE Null

(* ---------------------------- transformers ----------------------------- *)
\* Each transformer yields the frame as it leaves it, the log lines it wrote
\* and how it ended: "ok" (returned), "exit" (logging.error + sys.exit(1)) or
\* "raise" (an exception nobody catches).

Outcome(status, frame, logs) == [status |-> status, df |-> frame, logs |-> logs]

transform_customers(frame) ==
    IF StrAccessorRaises(frame, "customer_email")
    THEN Outcome("raise", frame, << >>)
    ELSE LET lowered == [i \in DOMAIN frame |->
                            [frame[i] EXCEPT !.customer_email = StrLower(@)]]
         IN  IF AnyNull(lowered, {"customer_fname", "customer_lname", "customer_email"})
             THEN Outcome("exit", lowered,
                          <<LogEntry("ERROR", "Datos faltantes en el DataFrame de customers.")>>)
             ELSE Outcome("ok", lowered, << >>)

\* a bug that treats duplicate names as fatal
transform_departments_Fatal(frame) ==
    IF AnyDuplicated(frame, "department_name")
    THEN Outcome("exit", frame,
                 <<LogEntry("ERROR", "Hay departamentos duplicados en el DataFrame de departments.")>>)
    ELSE Outcome("ok", frame, << >>)

transform_departments(frame) ==
    IF AnyDuplicated(frame, "department_name")
    THEN Outcome("ok", frame,
                 <<LogEntry("WARNING", "Hay departamentos duplicados en el DataFrame de departments.")>>)
    ELSE Outcome("ok", frame, << >>)

\* a bug that lets every category through
transform_categories_NoCheck(frame, departments_df) == Outcome("ok", frame, << >>)

transform_categories(frame, departments_df) ==
    LET valid_ids == KeySet(departments_df, "department_id") IN
    IF ~AllIsIn(frame, "category_department_id", valid_ids)
    THEN Outcome("exit", frame,
                 <<LogEntry("ERROR", "Hay category_department_id que no existen en departments.")>>)
    ELSE Outcome("ok", frame, << >>)

\* a bug that lets every product through
transform_products_NoCheck(frame, categories_df) == Outcome("ok", frame, << >>)

transform_products(frame, categories_df) ==
    LET valid_ids == KeySet(categories_df, "category_id") IN
    IF ~AllIsIn(frame, "product_category_id", valid_ids)
    THEN Outcome("exit", frame,
                 <<LogEntry("ERROR", "Hay product_category_id que no existen en categories.")>>)
    ELSE Outcome("ok", frame, << >>)

\* a bug that checks the customer reference ahead of the date
transform_orders_CustomerCheckFirst(frame, customers_df) ==
    LET parsed == [i \in DOMAIN frame |->
                      [frame[i] EXCEPT !.order_date = ToDatetime(@)]]
        valid_ids == KeySet(customers_df, "customer_id")
    IN  IF ~AllIsIn(parsed, "order_customer_id", valid_ids)
        THEN Outcome("exit", parsed,
                     <<LogEntry("ERROR", "Hay order_customer_id que no existen en customers.")>>)
        ELSE IF AnyNull(parsed, {"order_date"})
        THEN Outcome("exit", parsed,
                     <<LogEntry("ERROR", "Hay valores invalidos en order_date.")>>)
        ELSE Outcome("ok", parsed, << >>)

transform_orders(frame, customers_df) ==
    LET parsed == [i \in DOMAIN frame |->
                      [frame[i] EXCEPT !.order_date = ToDatetime(@)]]
        valid_ids == KeySet(customers_df, "customer_id")
    IN  IF AnyNull(parsed, {"order_date"})
        THEN Outcome("exit", parsed,
                     <<LogEntry("ERROR", "Hay valores invalidos en order_date.")>>)
        ELSE IF ~AllIsIn(parsed, "order_customer_id", valid_ids)
        THEN Outcome("exit", parsed,
                     <<LogEntry("ERROR", "Hay order_customer_id que no existen en customers.")>>)
        ELSE Outcome("ok", parsed, << >>)

\* a bug that adds where it should multiply
calculated_subtotal_Sum(frame) ==
    [i \in DOMAIN frame |->
        IF IsNull(frame[i].order_item_quantity) \/ IsNull(frame[i].order_item_product_price)
        THEN Null
        ELSE Some(frame[i].order_item_quantity[1] + frame[i].order_item_product_price[1])]

calculated_subtotal(frame) ==
    [i \in DOMAIN frame |->
        CellMul(frame[i].order_item_quantity, frame[i].order_item_product_price)]

transform_order_items(frame, orders_df, products_df) ==
    LET valid_order_ids == KeySet(orders_df, "order_id")
        valid_product_ids == KeySet(products_df, "product_id")
        calc == calculated_subtotal(frame)
    IN  IF ~AllIsIn(frame, "order_item_order_id", valid_order_ids)
        THEN Outcome("exit", frame,
                     <<LogEntry("ERROR", "Hay order_item_order_id que no existen en orders.")>>)
        ELSE IF ~AllIsIn(frame, "order_item_product_id", valid_product_ids)
        THEN Outcome("exit", frame,
                     <<LogEntry("ERROR", "Hay order_item_product_id que no existen en products.")>>)
        ELSE IF ~(\A i \in DOMAIN frame : CellEq(frame[i].order_item_subtotal, calc[i]))
        THEN Outcome("ok",
                     [i \in DOMAIN frame |->
                         [frame[i] EXCEPT !.order_item_subtotal = calc[i]]],
                     <<LogEntry("INFO", "Recalculando order_item_subtotal.")>>)
        ELSE Outcome("ok", frame, << >>)

(* ---------------------------- CSV contents ----------------------------- *)
\* The rows a CSV file may hold.  pandas reads an empty field as NaN.

DepartmentRow(id, name) == [department_id |-> id, department_name |-> name]

CategoryRow(id, dept) == [category_id |-> id, category_department_id |-> dept]

CustomerRow(id, email, fname, lname) ==
    [customer_id |-> id, customer_email |-> email,
     customer_fname |-> fname, customer_lname |-> lname]

ProductRow(id, cat) == [product_id |-> id, product_category_id |-> cat]

OrderRow(id, date, cust) ==
    [order_id |-> id, order_date |-> date, order_customer_id |-> cust]

OrderItemRow(ord, prod, qty, price, subtotal) ==
    [order_item_order_id |-> ord, order_item_product_id |-> prod,
     order_item_quantity |-> qty, order_item_product_price |-> price,
     order_item_subtotal |-> subtotal]

Rows(table) ==
    CASE table = "departments" ->
           { DepartmentRow(Some(1), Some("Tech")),
             DepartmentRow(Some(2), Some("Apparel")) }
      [] table = "categories" ->
           { CategoryRow(Some(1), Some(1)),
             CategoryRow(Some(2), Some(2)) }
      [] table = "customers" ->
           { CustomerRow(Some(1), Some(<<"A", "@", "X">>), Some("Ann"), Some("Lee")),
             CustomerRow(Some(2), Some(<<"b", "@", "x">>), Null, Some("Ray")),
             CustomerRow(Some(2), Some(<<"B", "@", "x">>), Some("Bob"), Null),
             CustomerRow(Some(2), Null, Some("Bob"), Some("Ray")) }
      [] table = "products" ->
           { ProductRow(Some(1), Some(1)),
             ProductRow(Some(2), Some(3)) }
      [] table = "orders" ->
           { OrderRow(Some(1), Some(<<2012, 2, 29>>), Some(1)),
             OrderRow(Some(2), Some(<<2013, 7, 25>>), Some(2)),
             OrderRow(Some(2), Some(<<2013, 2, 29>>), Some(1)),
             OrderRow(Some(2), Some(<< >>), Some(2)),
             OrderRow(Some(2), Null, Some(1)) }
      [] table = "order_items" ->
           { OrderItemRow(Some(1), Some(1), Some(2), Some(5), Some(10)),
             OrderItemRow(Some(1), Some(1), Some(1), Some(5), Some(7)),
             OrderItemRow(Some(2), Some(2), Some(3), Some(5), Null) }

\* every frame pd.read_csv may return for the file of a table
Frames(table) == UNION { [1..n -> Rows(table)] : n \in 0..MaxRows }

(* ---------------------------- the run ---------------------------------- *)

EmptyDict == [t \in {} |-> << >>]

Init ==
    /\ pc = "CONNECTING"
    /\ cur = 1
    /\ df = << >>
    /\ dataframes = EmptyDict
    /\ db = EmptyDict
    /\ calls = << >>
    /\ reads = [t \in Tables |-> 0]
    /\ log = << >>
    /\ exit_status = Null
    /\ err = NoFailure

\* sys.exit(1) after a logging.error, or an uncaught exception
Abort(kind, table, logs) ==
    /\ pc' = "FAILED"
    /\ log' = log \o logs
    /\ exit_status' = Some(1)
    /\ err' = Failure(kind, table)

\* create_db_engine succeeds
CreateDbEngineOk ==
    /\ pc = "CONNECTING"
    /\ pc' = "READING"
    /\ log' = Append(log, LogEntry("INFO", "Conexion a la base de datos establecida correctamente."))
    /\ UNCHANGED <<cur, df, dataframes, db, calls, reads, exit_status, err>>

\* create_db_engine: create_engine raises
CreateDbEngineFail ==
    /\ pc = "CONNECTING"
    /\ Abort("ConnectionFailed", "none",
             <<LogEntry("ERROR", "Error al conectar a la base de datos")>>)
    /\ UNCHANGED <<cur, df, dataframes, db, calls, reads>>

\* read_csv returns a frame
ReadCsvOk ==
    /\ pc = "READING"
    /\ \E frame \in Frames(read_order[cur]) : df' = frame
    /\ reads' = [reads EXCEPT ![read_order[cur]] = @ + 1]
    /\ log' = Append(log, LogAbout("INFO", "Archivo leido exitosamente.", CSV_FILES[read_order[cur]]))
    /\ pc' = "TRANSFORMING"
    /\ UNCHANGED <<cur, dataframes, db, calls, exit_status, err>>

\* read_csv: pd.read_csv raises
ReadCsvFail ==
    /\ pc = "READING"
    /\ reads' = [reads EXCEPT ![read_order[cur]] = @ + 1]
    /\ Abort("SourceUnavailable", read_order[cur],
             <<LogAbout("ERROR", "Error al leer el archivo", CSV_FILES[read_order[cur]])>>)
    /\ UNCHANGED <<cur, df, dataframes, db, calls>>

\* what main does with the outcome of the transformer of table read_order[cur]
Transformed(out) ==
    /\ df' = out.df
    /\ IF out.status = "ok"
       THEN /\ dataframes' = dataframes @@ (read_order[cur] :> out.df)
            /\ log' = log \o out.logs
            /\ cur' = IF cur = Len(read_order) THEN 1 ELSE cur + 1
            /\ pc' = IF cur = Len(read_order) THEN "LOADING" ELSE "READING"
            /\ UNCHANGED <<exit_status, err>>
       ELSE /\ Abort(IF out.status = "exit" THEN "ValidationFailed" ELSE "Uncaught",
                     read_order[cur], out.logs)
            /\ UNCHANGED <<dataframes, cur>>
    /\ UNCHANGED <<db, calls, reads>>

TransformDepartments ==
    /\ pc = "TRANSFORMING" /\ read_order[cur] = "departments"
    /\ Transformed(transform_departments(df))

TransformCategories ==
    /\ pc = "TRANSFORMING" /\ read_order[cur] = "categories"
    /\ Transformed(transform_categories(df, dataframes["departments"]))

TransformCustomers ==
    /\ pc = "TRANSFORMING" /\ read_order[cur] = "customers"
    /\ Transformed(transform_customers(df))

TransformProducts ==
    /\ pc = "TRANSFORMING" /\ read_order[cur] = "products"
    /\ Transformed(transform_products(df, dataframes["categories"]))

\* a bug that drops, in place, the customers no order refers to
TransformOrders_FiltersCustomers ==
    /\ pc = "TRANSFORMING" /\ read_order[cur] = "orders"
    /\ LET out == transform_orders(df, dataframes["customers"])
           used == KeySet(out.df, "order_customer_id")
       IN  /\ df' = out.df
           /\ IF out.status = "ok"
              THEN /\ dataframes' =
                        [dataframes EXCEPT !["customers"] =
                            SelectSeq(@, LAMBDA r : r.customer_id \in used)]
                        @@ ("orders" :> out.df)
                   /\ log' = log \o out.logs
                   /\ cur' = cur + 1
                   /\ pc' = "READING"
                   /\ UNCHANGED <<exit_status, err>>
              ELSE /\ Abort("ValidationFailed", "orders", out.logs)
                   /\ UNCHANGED <<dataframes, cur>>
    /\ UNCHANGED <<db, calls, reads>>

TransformOrders ==
    /\ pc = "TRANSFORMING" /\ read_order[cur] = "orders"
    /\ Transformed(transform_orders(df, dataframes["customers"]))

TransformOrderItems ==
    /\ pc = "TRANSFORMING" /\ read_order[cur] = "order_items"
    /\ Transformed(transform_order_items(df, dataframes["orders"], dataframes["products"]))

\* load_data: to_sql appends the frame to the table
LoadDataOk ==
    /\ pc = "LOADING" /\ cur <= Len(load_order)
    /\ calls' = Append(calls, load_order[cur])
    /\ db' = IF load_order[cur] \in DOMAIN db
             THEN [db EXCEPT ![load_order[cur]] = @ \o dataframes[load_order[cur]]]
             ELSE db @@ (load_order[cur] :> dataframes[load_order[cur]])
    /\ log' = Append(log, LogAbout("INFO", "Datos cargados exitosamente en la tabla.", load_order[cur]))
    /\ cur' = cur + 1
    /\ UNCHANGED <<pc, df, dataframes, reads, exit_status, err>>

\* a bug that swallows the exception of to_sql and goes on to the next table
LoadDataFail_Swallowed ==
    /\ pc = "LOADING" /\ cur <= Len(load_order)
    /\ calls' = Append(calls, load_order[cur])
    /\ log' = Append(log, LogAbout("ERROR", "Error al cargar datos en la tabla", load_order[cur]))
    /\ err' = Failure("SinkWriteFailed", load_order[cur])
    /\ cur' = cur + 1
    /\ UNCHANGED <<pc, df, dataframes, db, reads, exit_status>>

\* load_data: to_sql raises
LoadDataFail ==
    /\ pc = "LOADING" /\ cur <= Len(load_order)
    /\ calls' = Append(calls, load_order[cur])
    /\ Abort("SinkWriteFailed", load_order[cur],
             <<LogAbout("ERROR", "Error al cargar datos en la tabla", load_order[cur])>>)
    /\ UNCHANGED <<cur, df, dataframes, db, reads>>

\* main falls off its loop: the closing log line, exit status 0
Finish ==
    /\ pc = "LOADING" /\ cur > Len(load_order)
    /\ pc' = "DONE"
    /\ log' = Append(log, LogEntry("INFO", "Pipeline de datos ejecutado exitosamente."))
    /\ exit_status' = Some(0)
    /\ UNCHANGED <<cur, df, dataframes, db, calls, reads, err>>

Next ==
    \/ CreateDbEngineOk
    \/ CreateDbEngineFail
    \/ ReadCsvOk
    \/ ReadCsvFail
    \/ TransformDepartments
    \/ TransformCategories
    \/ TransformCustomers
    \/ TransformProducts
    \/ TransformOrders
    \/ TransformOrderItems
    \/ LoadDataOk
    \/ LoadDataFail
    \/ Finish

Spec == Init /\ [][Next]_vars

(* ======================== properties of the run ======================== *)

ClaimOrder ==
    <<"departments", "categories", "customers", "products", "orders", "order_items">>

IsPrefix(s, t) == Len(s) <= Len(t) /\ \A i \in DOMAIN s : s[i] = t[i]

AtTransform(table) == pc = "TRANSFORMING" /\ read_order[cur] = table

HasLog(level, msg) == \E i \in DOMAIN log : log[i] = LogEntry(level, msg)

DuplicateWarning ==
    LogEntry("WARNING", "Hay departamentos duplicados en el DataFrame de departments.")

\* the foreign keys of section 3: <<child, column, parent, key>>
ForeignKeys ==
    { <<"categories", "category_department_id", "departments", "department_id">>,
      <<"products", "product_category_id", "categories", "category_id">>,
      <<"orders", "order_customer_id", "customers", "customer_id">>,
      <<"order_items", "order_item_order_id", "orders", "order_id">>,
      <<"order_items", "order_item_product_id", "products", "product_id">> }

\* C1: load_data is called for the tables in the order departments,
\* categories, customers, products, orders, order_items, each at most once;
\* no call is made before all six files have been read (once) and all six
\* frames transformed; and a run that ends DONE has made exactly the six
\* calls and has written the six tables.
C1_WriterOrder ==
    /\ IsPrefix(calls, ClaimOrder)
    /\ calls # << >> =>
          /\ DOMAIN dataframes = Tables
          /\ \A t \in Tables : reads[t] = 1
    /\ pc = "DONE" => (calls = ClaimOrder /\ DOMAIN db = Tables)

C1_Witness ==
    /\ pc = "DONE"
    /\ calls = ClaimOrder
    /\ \A t \in Tables : t \in DOMAIN db /\ Len(db[t]) > 0

C2_Returned ==
    "categories" \in DOMAIN dataframes =>
        \A i \in DOMAIN dataframes["categories"] :
            \E j \in DOMAIN dataframes["departments"] :
                dataframes["categories"][i].category_department_id
                    = dataframes["departments"][j].department_id

C2_Dangling ==
    /\ AtTransform("categories")
    /\ \E i \in DOMAIN df :
          \A j \in DOMAIN dataframes["departments"] :
              df[i].category_department_id # dataframes["departments"][j].department_id

C2_Step ==
    C2_Dangling =>
        /\ pc' = "FAILED"
        /\ exit_status' = Some(1)
        /\ err' = Failure("ValidationFailed", "categories")
        /\ DOMAIN db' \cap {"categories", "products", "order_items"} = {}

\* C2: once transform_categories has returned, every category_department_id
\* is a department_id of the departments frame it was given; a categories
\* frame with a category_department_id outside that set makes the run fail
\* (exit status 1), and nothing is written for categories, products or
\* order_items, then or later.
C2_CategoriesReferDepartments ==
    /\ []C2_Returned
    /\ [][C2_Step]_vars
    /\ [][pc = "FAILED" => (pc' = "FAILED" /\ db' = db)]_vars

C2_Witness ==
    /\ pc = "FAILED"
    /\ err = Failure("ValidationFailed", "categories")
    /\ DOMAIN db = {}
    /\ \E i, k \in DOMAIN df :
          /\ df[i].category_department_id
                \notin KeySet(dataframes["departments"], "department_id")
          /\ df[k].category_department_id
                \in KeySet(dataframes["departments"], "department_id")

C3_HasNull ==
    /\ AtTransform("customers")
    /\ \E i \in DOMAIN df :
          \/ df[i].customer_fname = Null
          \/ df[i].customer_lname = Null
          \/ df[i].customer_email = Null

\* C3: a customers frame with a null customer_fname, customer_lname or
\* customer_email makes transform_customers fail with the validation error
\* of customers (the logged "Datos faltantes" error followed by exit 1), and
\* load_data has not been called for any table.
C3_NullCustomerFailsValidation ==
    [][C3_HasNull =>
          /\ pc' = "FAILED"
          /\ exit_status' = Some(1)
          /\ err' = Failure("ValidationFailed", "customers")
          /\ log' = Append(log,
                 LogEntry("ERROR", "Datos faltantes en el DataFrame de customers."))
          /\ calls' = << >>
          /\ db' = EmptyDict]_vars

\* the order_date cells of the sample files that are not dates: an empty
\* field, the 29th of February of a common year, a text without a date
UnparseableDate(c) == c \in {Null, Some(<<2013, 2, 29>>), Some(<< >>)}

C4_BadDate ==
    /\ AtTransform("orders")
    /\ \E i \in DOMAIN df : UnparseableDate(df[i].order_date)

C4_Step ==
    C4_BadDate =>
        /\ pc' = "FAILED"
        /\ exit_status' = Some(1)
        /\ err' = Failure("ValidationFailed", "orders")
        /\ log' = Append(log, LogEntry("ERROR", "Hay valores invalidos en order_date."))
        /\ Len(df') = Len(df)
        /\ \A i \in DOMAIN df :
              UnparseableDate(df[i].order_date) => df'[i].order_date = Null
        /\ calls' = << >>
        /\ db' = EmptyDict

\* C4: an orders frame with an order_date that is null or is not a date has
\* that date coerced to null and makes transform_orders fail with the
\* order_date validation error, whatever its order_customer_id values are;
\* nothing has been written and the run never reaches the loading stage.
C4_BadOrderDateFails ==
    /\ [][C4_Step]_vars
    /\ [](err = Failure("ValidationFailed", "orders") =>
             (pc = "FAILED" /\ calls = << >> /\ "orders" \notin DOMAIN dataframes))

C4_Witness ==
    /\ pc = "FAILED"
    /\ err = Failure("ValidationFailed", "orders")
    /\ log[Len(log)] = LogEntry("ERROR", "Hay valores invalidos en order_date.")
    /\ calls = << >>
    /\ \E i, k \in DOMAIN df :
          /\ df[i].order_date = Null
          /\ df[i].order_customer_id \notin KeySet(dataframes["customers"], "customer_id")
          /\ df[k].order_date # Null

\* quantity * price of one order_items row
QuantityTimesPrice(r) ==
    IF r.order_item_quantity = Null \/ r.order_item_product_price = Null
    THEN Null
    ELSE Some(r.order_item_quantity[1] * r.order_item_product_price[1])

C5_Step ==
    (AtTransform("order_items") /\ pc' # "FAILED") =>
        LET pre == df
            post == dataframes'["order_items"]
        IN  /\ Len(post) = Len(pre)
            /\ \A i \in DOMAIN pre :
                  [post[i] EXCEPT !.order_item_subtotal = pre[i].order_item_subtotal] = pre[i]
            /\ IF \E i \in DOMAIN pre : pre[i].order_item_subtotal # QuantityTimesPrice(pre[i])
               THEN \A i \in DOMAIN pre :
                        post[i].order_item_subtotal = QuantityTimesPrice(pre[i])
               ELSE \A i \in DOMAIN pre :
                        post[i].order_item_subtotal = pre[i].order_item_subtotal

\* C5: for an order_items frame that passes both referential checks, when
\* some row's order_item_subtotal differs from quantity * price every row's
\* subtotal is quantity * price afterwards, and when no row differs the
\* subtotal column is as it was; no other column and no row count changes.
C5_SubtotalGlobalOrNone == [][C5_Step]_vars

C5_Witness ==
    /\ "order_items" \in DOMAIN dataframes
    /\ HasLog("INFO", "Recalculando order_item_subtotal.")
    /\ \E i, k \in DOMAIN dataframes["order_items"] :
          /\ dataframes["order_items"][i].order_item_quantity = Some(2)
          /\ dataframes["order_items"][i].order_item_subtotal = Some(10)
          /\ dataframes["order_items"][k].order_item_quantity = Some(1)
          /\ dataframes["order_items"][k].order_item_subtotal = Some(5)

C6_Duplicates ==
    /\ AtTransform("departments")
    /\ \E i, j \in DOMAIN df : i # j /\ df[i].department_name = df[j].department_name

C6_Step ==
    C6_Duplicates =>
        /\ pc' = "READING"
        /\ dataframes'["departments"] = df
        /\ log' = Append(log, DuplicateWarning)
        /\ err' = NoFailure
        /\ exit_status' = Null

C6_NeverFatal ==
    /\ ~(err.table = "departments" /\ err.kind \in {"ValidationFailed", "Uncaught"})
    /\ \A i \in DOMAIN log : log[i].level = "WARNING" => log[i] = DuplicateWarning
    /\ HasLog("WARNING", DuplicateWarning.msg) => "departments" \in DOMAIN dataframes

\* C6: duplicate department_name values make transform_departments log a
\* warning and return the frame as it was; the run goes on to read
\* categories, it never fails on account of departments' contents, and the
\* duplicate warning is the only warning the run ever logs.
C6_DuplicateDepartmentsNotFatal ==
    /\ [][C6_Step]_vars
    /\ []C6_NeverFatal

C6_Witness ==
    /\ pc = "DONE"
    /\ exit_status = Some(0)
    /\ HasLog("WARNING", DuplicateWarning.msg)
    /\ Len(db["departments"]) = 2
    /\ db["departments"][1].department_name = db["departments"][2].department_name
    /\ \A t \in Tables : t \in DOMAIN db /\ Len(db[t]) > 0

\* C7: transform_customers applied to a frame it has returned returns again
\* (no error, no exit) and returns that same frame: the e-mails are already
\* lower case and no column changes.
C7_CustomersIdempotent ==
    "customers" \in DOMAIN dataframes =>
        /\ transform_customers(dataframes["customers"]).status = "ok"
        /\ transform_customers(dataframes["customers"]).df = dataframes["customers"]

C7_Witness ==
    /\ "customers" \in DOMAIN dataframes
    /\ Len(dataframes["customers"]) = 2
    /\ dataframes["customers"][1].customer_email = Some(<<"a", "@", "x">>)

C8_AtFailedWrite ==
    err.kind = "SinkWriteFailed" =>
        LET k == Len(calls) IN
        /\ pc = "FAILED"
        /\ exit_status = Some(1)
        /\ k \in 1..Len(ClaimOrder)
        /\ err.table = ClaimOrder[k]
        /\ calls = SubSeq(ClaimOrder, 1, k)
        /\ DOMAIN db = {ClaimOrder[i] : i \in 1..(k - 1)}
        /\ \A t \in DOMAIN db : db[t] = dataframes[t]

\* C8: when the write of the k-th table fails the run is in the failed
\* state with exit status 1, load_data has been called once for each of the
\* first k tables and for no other, the tables written are exactly the
\* first k-1 of the load order with the rows handed to the writer, and the
\* failed state is final: no step leaves it.
C8_FailFastNoRollback ==
    /\ []C8_AtFailedWrite
    /\ [][pc # "FAILED"]_vars

C8_Witness ==
    /\ err = Failure("SinkWriteFailed", "customers")
    /\ pc = "FAILED"
    /\ DOMAIN db = {"departments", "categories"}
    /\ Len(db["departments"]) > 0
    /\ Len(db["categories"]) > 0

C9_Frame ==
    /\ \A t \in DOMAIN dataframes :
          t \in DOMAIN dataframes' /\ dataframes'[t] = dataframes[t]
    /\ \A t \in DOMAIN db :
          t \in DOMAIN db' /\ db'[t] = db[t]
    /\ reads' # reads => pc = "READING"
    /\ df' # df => pc \in {"READING", "TRANSFORMING"}
    /\ dataframes' # dataframes =>
          /\ pc = "TRANSFORMING"
          /\ DOMAIN dataframes' = DOMAIN dataframes \cup {read_order[cur]}
          /\ read_order[cur] \notin DOMAIN dataframes

C9_State ==
    /\ \A t \in Tables : reads[t] <= 1
    /\ \A t \in DOMAIN db : t \in DOMAIN dataframes /\ db[t] = dataframes[t]

\* C9: a frame stored by main after its own transformer never changes again
\* (not under the transformer of a table that refers to it, not before it
\* is written, not after); every file is read at most once; and what is
\* written for a table is the frame its transformer returned.
C9_OnlyOwnTransformerMutates ==
    /\ [][C9_Frame]_vars
    /\ []C9_State

C9_Witness ==
    /\ pc = "DONE"
    /\ Len(dataframes["customers"]) > 0
    /\ Len(dataframes["orders"]) > 0
    /\ Len(dataframes["order_items"]) > 0
    /\ \A t \in Tables : reads[t] = 1 /\ db[t] = dataframes[t]

\* C10: for each of the five foreign keys, every row written so far has its
\* foreign-key value equal to a key of a row of the referenced table that
\* has already been written.
C10_PersistedReferentialIntegrity ==
    \A fk \in ForeignKeys :
        fk[1] \in DOMAIN db =>
            /\ fk[3] \in DOMAIN db
            /\ \A i \in DOMAIN db[fk[1]] :
                  \E j \in DOMAIN db[fk[3]] : db[fk[1]][i][fk[2]] = db[fk[3]][j][fk[4]]

C10_Witness ==
    /\ pc = "DONE"
    /\ Len(db["order_items"]) = 2
    /\ db["order_items"][1].order_item_quantity # db["order_items"][2].order_item_quantity
    /\ Len(db["categories"]) = 2

====
